---------------------------- MODULE Spec2Model ----------------------------
(***************************************************************************)
(* Model of src/server.py: the per-connection coroutine request_handler,   *)
(* the router, the two response writers and the route-table set-up done by *)
(* start_server.                                                           *)
(*                                                                         *)
(* Octet strings (Python bytes) are sequences of one-character strings.    *)
(* One connection is modelled: connections share nothing but the read-only *)
(* route table.  The client's octets are chosen in Init; the reader's      *)
(* buffer ends with EOF (the peer sends what it sends and closes).         *)
(***************************************************************************)
EXTENDS Integers, Sequences, FiniteSets, TLC

(***************************************************************************)
(* Bounds of the model                                                     *)
(***************************************************************************)
MaxHeaders == 2   \* field lines chosen freely after the fixed prefix
MaxBody == 2      \* octets the client sends after the header block

(***************************************************************************)
(* Octets and character classes                                            *)
(***************************************************************************)
CR == "\r"
LF == "\n"
SP == " "
\* the octet 0x60, which the lexer does not accept inside a string
Backtick == "BACKTICK"
CRLF == <<CR, LF>>
CRLFCRLF == <<CR, LF, CR, LF>>

Digits == {"0", "1", "2", "3", "4", "5", "6", "7", "8", "9"}
DigitSeq == <<"0", "1", "2", "3", "4", "5", "6", "7", "8", "9">>
UpperSeq == <<"A", "B", "C", "D", "E", "F", "G", "H", "I", "J", "K", "L", "M",
              "N", "O", "P", "Q", "R", "S", "T", "U", "V", "W", "X", "Y", "Z">>
LowerSeq == <<"a", "b", "c", "d", "e", "f", "g", "h", "i", "j", "k", "l", "m",
              "n", "o", "p", "q", "r", "s", "t", "u", "v", "w", "x", "y", "z">>
Range(s) == {s[i] : i \in DOMAIN s}
Upper == Range(UpperSeq)
Lower == Range(LowerSeq)

\* \w of a bytes pattern: ASCII letters, digits and underscore
WordChars == Upper \cup Lower \cup Digits \cup {"_"}
\* bytes.strip() with no argument removes ASCII whitespace
Whitespace == {SP, "\t", LF, CR, "\f"}
\* the character class of the method pattern, line 137
MethodChars == WordChars \cup {"!", "#", "$", "%", "&", "'", "*", "+", ".", "^", "_", Backtick, "|", "~", "-"}
\* HEADER_FIELDS_TCHAR, used inside [...] on line 187
HEADER_FIELDS_TCHAR == {"!", "#", "$", "%", "&", "'", "*", "+", "-", ".", "^", "_", Backtick, "|", "~"} \cup Digits \cup WordChars

Min(S) == CHOOSE x \in S : \A y \in S : x <= y

\* bytes.lower() on one octet
LowerChar(c) == IF c \in Upper THEN LowerSeq[CHOOSE i \in DOMAIN UpperSeq : UpperSeq[i] = c] ELSE c
\* bytes.lower()
ToLower(s) == [i \in DOMAIN s |-> LowerChar(s[i])]

\* bytes.find(d, from): least index of an occurrence of d, 0 when there is none
Find(s, d, from) ==
    LET hits == {i \in from..(Len(s) - Len(d) + 1) : SubSeq(s, i, i + Len(d) - 1) = d}
    IN IF hits = {} THEN 0 ELSE Min(hits)

\* bytes.split(d)
RECURSIVE Split(_, _)
Split(s, d) ==
    LET i == Find(s, d, 1)
    IN IF i = 0 THEN <<s>>
       ELSE <<SubSeq(s, 1, i - 1)>> \o Split(SubSeq(s, i + Len(d), Len(s)), d)

\* bytes.strip()
Strip(s) ==
    LET keep == {i \in DOMAIN s : s[i] \notin Whitespace}
    IN IF keep = {} THEN <<>>
       ELSE SubSeq(s, Min(keep), CHOOSE i \in keep : \A j \in keep : j <= i)

AllIn(s, class) == \A i \in DOMAIN s : s[i] \in class


Max(S) == CHOOSE x \in S : \A y \in S : y <= x

\* the number of leading elements of SubSeq(s, j, Len(s)) that lie in class
RunLength(s, j, class) ==
    LET stops == {i \in j..Len(s) : s[i] \notin class}
    IN IF stops = {} THEN Len(s) - j + 1 ELSE Min(stops) - j

(***************************************************************************)
(* Patterns of the request line (lines 125, 137, 153), each used with      *)
(* re.fullmatch on bytes                                                   *)
(***************************************************************************)
HttpPrefix == <<"H", "T", "T", "P", "/">>

\* br'HTTP/\d(\.\d)?'
VersionSyntaxOk(v) ==
    /\ Len(v) \in {6, 8}
    /\ SubSeq(v, 1, 5) = HttpPrefix
    /\ v[6] \in Digits
    /\ Len(v) = 8 => (v[7] = "." /\ v[8] \in Digits)

\* br'[\w!#$%&\'*+.^_`|~-]+'
MethodSyntaxOk(m) == Len(m) >= 1 /\ AllIn(m, MethodChars)

\* br'^/[\w/]*\??[\w=&]*$': "/", a run of [\w/], an optional "?", a run of [\w=&]
TargetSyntaxOk(t) ==
    /\ Len(t) >= 1
    /\ t[1] = "/"
    /\ \E i \in 1..Len(t) :
          /\ AllIn(SubSeq(t, 2, i), WordChars \cup {"/"})
          /\ LET rest == SubSeq(t, i + 1, Len(t))
                 tail == IF rest # <<>> /\ rest[1] = "?" THEN Tail(rest) ELSE rest
             IN \/ AllIn(rest, WordChars \cup {"=", "&"})
                \/ AllIn(tail, WordChars \cup {"=", "&"})

(***************************************************************************)
(* urlparse(request_target).path.decode('utf-8'), line 158-159.  A target  *)
(* that begins with "//" loses its authority (up to the next "/", "?" or   *)
(* "#"); the path then ends before the first "#" or "?".  The target       *)
(* begins with "/", so no scheme is split off, and it is ASCII, so decode  *)
(* maps every octet to the same character.                                 *)
(***************************************************************************)
UrlPath(t) ==
    LET afterNetloc ==
            IF Len(t) >= 2 /\ SubSeq(t, 1, 2) = <<"/", "/">>
            THEN LET d == {i \in 3..Len(t) : t[i] \in {"/", "?", "#"}}
                 IN IF d = {} THEN <<>> ELSE SubSeq(t, Min(d), Len(t))
            ELSE t
    IN SubSeq(afterNetloc, 1, RunLength(afterNetloc, 1, Range(afterNetloc) \ {"#", "?"}))

(***************************************************************************)
(* The route DSL and the regular expressions it compiles to                *)
(***************************************************************************)
\* re.sub(r'(<\w+>)', r'(?P\1[^/]+)', dsl): every "<name>" becomes "(?P<name>[^/]+)"
RECURSIVE route_dsl_to_regex(_)
route_dsl_to_regex(dsl) ==
    IF dsl = <<>> THEN <<>>
    ELSE LET n == RunLength(dsl, 2, WordChars)
         IN IF dsl[1] = "<" /\ n >= 1 /\ n + 2 <= Len(dsl) /\ dsl[n + 2] = ">"
            THEN <<"(", "?", "P">> \o SubSeq(dsl, 1, n + 2) \o <<"[", "^", "/", "]", "+", ")">>
                 \o route_dsl_to_regex(SubSeq(dsl, n + 3, Len(dsl)))
            ELSE <<dsl[1]>> \o route_dsl_to_regex(Tail(dsl))

\* The characters the regex compiler reads as operators
RegexMeta == {".", "^", "$", "*", "+", "?", "{", "}", "[", "]", "\\", "|", "(", ")"}

\* The atom at the head of pattern p and the number of characters it spans:
\* a named group "(?P<name>[^/]+)", a "." or a literal, with a following
\* "*", "+" or "?" as its quantifier.  A pattern that uses any other operator
\* is outside the model: kind "unsupported" matches nothing.
RegexHead(p) ==
    LET n == RunLength(p, 5, WordChars)
        isGroup == /\ Len(p) >= 11 + n
                   /\ SubSeq(p, 1, 4) = <<"(", "?", "P", "<">>
                   /\ n >= 1
                   /\ SubSeq(p, 5 + n, 11 + n) = <<">", "[", "^", "/", "]", "+", ")">>
        quant(k) == IF Len(p) >= k /\ p[k] \in {"*", "+", "?"} THEN p[k] ELSE "1"
        span(k) == IF quant(k + 1) = "1" THEN k ELSE k + 1
    IN IF isGroup
       THEN [kind |-> "notslash", c |-> "", q |-> "+", name |-> SubSeq(p, 5, 4 + n), span |-> 11 + n]
       ELSE IF p[1] = "."
       THEN [kind |-> "any", c |-> "", q |-> quant(2), name |-> <<>>, span |-> span(1)]
       ELSE IF p[1] \in RegexMeta
       THEN [kind |-> "unsupported", c |-> p[1], q |-> "1", name |-> <<>>, span |-> 1]
       ELSE [kind |-> "lit", c |-> p[1], q |-> quant(2), name |-> <<>>, span |-> span(1)]

\* the pattern as its sequence of atoms
RECURSIVE RegexAtoms(_)
RegexAtoms(p) ==
    IF p = <<>> THEN <<>>
    ELSE LET h == RegexHead(p) IN <<h>> \o RegexAtoms(SubSeq(p, h.span + 1, Len(p)))

AtomMatches(a, c) ==
    CASE a.kind = "lit" -> c = a.c
      [] a.kind = "any" -> c # LF
      [] a.kind = "notslash" -> c # "/"
      [] OTHER -> FALSE

\* Backtracking match of atoms k.. against s from position j to its end; a
\* quantified atom takes the longest run for which the rest still matches.
RECURSIVE ReMatch(_, _, _, _)
ReMatch(atoms, k, s, j) ==
    IF k > Len(atoms) THEN [ok |-> j = Len(s) + 1, caps |-> <<>>]
    ELSE LET a == atoms[k]
             run == IF j > Len(s) THEN 0
                    ELSE Min({i \in j..(Len(s) + 1) : i = Len(s) + 1 \/ ~AtomMatches(a, s[i])}) - j
             lo == IF a.q \in {"1", "+"} THEN 1 ELSE 0
             hi == IF a.q \in {"1", "?"} /\ run > 1 THEN 1 ELSE run
             good == {n \in lo..hi : ReMatch(atoms, k + 1, s, j + n).ok}
         IN IF good = {} THEN [ok |-> FALSE, caps |-> <<>>]
            ELSE LET n == Max(good)
                     cap == IF a.name # <<>>
                            THEN <<[name |-> a.name, value |-> SubSeq(s, j, j + n - 1)]>>
                            ELSE <<>>
                 IN [ok |-> TRUE, caps |-> cap \o ReMatch(atoms, k + 1, s, j + n).caps]

\* re.fullmatch(pattern, path); its groupdict() is caps
ReFullMatch(pattern, path) == ReMatch(RegexAtoms(pattern), 1, path, 1)


(***************************************************************************)
(* Program constants                                                       *)
(***************************************************************************)
GET == <<"G", "E", "T">>
HEAD == <<"H", "E", "A", "D">>
POST == <<"P", "O", "S", "T">>
PUT == <<"P", "U", "T">>
DELETE == <<"D", "E", "L", "E", "T", "E">>
PATCH == <<"P", "A", "T", "C", "H">>
CONNECT == <<"C", "O", "N", "N", "E", "C", "T">>
OPTIONS == <<"O", "P", "T", "I", "O", "N", "S">>
TRACE == <<"T", "R", "A", "C", "E">>

HTTP_METHODS_MUST == {GET, HEAD}
HTTP_METHODS_OPTIONAL == {POST, PUT, DELETE, PATCH, CONNECT, OPTIONS, TRACE}
HTTP_METHODS_ALLOWED == HTTP_METHODS_MUST \cup HTTP_METHODS_OPTIONAL
HTTP_METHOD_SAFE == HTTP_METHODS_MUST \cup {OPTIONS, TRACE}
HTTP_METHODS_IMPLEMENTED == HTTP_METHODS_ALLOWED \ {CONNECT, OPTIONS, TRACE}

HTTP10 == HttpPrefix \o <<"1", ".", "0">>
HTTP11 == HttpPrefix \o <<"1", ".", "1">>
HTTP1 == HttpPrefix \o <<"1">>
HTTP_VERSIONS_ALLOWED == {HTTP10, HTTP11, HTTP1}

CONTENT_LENGTH_MAX == 2 ^ 20

TextHtml == <<"t", "e", "x", "t", "/", "h", "t", "m", "l">>
ApplicationJson == <<"a", "p", "p", "l", "i", "c", "a", "t", "i", "o", "n", "/", "j", "s", "o", "n">>
CONTENT_TYPE_ALLOWED == {TextHtml, ApplicationJson}

\* the keys request_handler looks up in header_fields
KeyContentLength == <<"c", "o", "n", "t", "e", "n", "t", "-", "l", "e", "n", "g", "t", "h">>
KeyContentLengthMixed == <<"C", "o", "n", "t", "e", "n", "t", "-", "L", "e", "n", "g", "t", "h">>
KeyContentType == <<"c", "o", "n", "t", "e", "n", "t", "-", "t", "y", "p", "e">>

(***************************************************************************)
(* int(value) of a bytes value: an optional sign and decimal digits.  The  *)
(* result is [ok, n]; ok = FALSE stands for ValueError.                    *)
(***************************************************************************)
DigitValue(c) == (CHOOSE i \in DOMAIN DigitSeq : DigitSeq[i] = c) - 1

RECURSIVE DecimalValue(_)
DecimalValue(ds) ==
    IF ds = <<>> THEN 0
    ELSE 10 * DecimalValue(SubSeq(ds, 1, Len(ds) - 1)) + DigitValue(ds[Len(ds)])

ParseInt(v) ==
    LET t == Strip(v)
        signed == t # <<>> /\ t[1] \in {"+", "-"}
        ds == IF signed THEN Tail(t) ELSE t
    IN IF ds = <<>> \/ ~AllIn(ds, Digits) THEN [ok |-> FALSE, n |-> 0]
       ELSE [ok |-> TRUE, n |-> IF signed /\ t[1] = "-" THEN 0 - DecimalValue(ds) ELSE DecimalValue(ds)]

\* str(n) for n >= 0
RECURSIVE Str(_)
Str(n) == IF n < 10 THEN <<DigitSeq[n + 1]>> ELSE Str(n \div 10) \o <<DigitSeq[(n % 10) + 1]>>

(***************************************************************************)
(* Text returned by handlers is a sequence of characters; the one          *)
(* non-ASCII character of the source is the globe of default_main_page.    *)
(* str.encode() gives the UTF-8 octets: one per ASCII character, four for  *)
(* U+1F310.                                                                *)
(***************************************************************************)
Globe == "U+1F310"
Utf8(c) == IF c = Globe THEN <<"\\xf0", "\\x9f", "\\x8c", "\\x90">> ELSE <<c>>

RECURSIVE Encode(_)
Encode(text) == IF text = <<>> THEN <<>> ELSE Utf8(text[1]) \o Encode(Tail(text))


(***************************************************************************)
(* Handlers.  default_not_found and default_main_page are the source's;    *)
(* app_handler stands for a handler of the application, which returns text *)
(* or raises.  A handler called with keyword arguments it does not take    *)
(* raises TypeError.  An outcome is [raised, body].                        *)
(***************************************************************************)
NotFoundBody == <<"<", "h", "1", ">", "N", "o", "t", " ", "f", "o", "u", "n", "d", "<", "/", "h", "1", ">">>
MainPageBody ==
    <<"<", "h", "1", ">", "M", "a", "i", "n", " ", "P", "a", "g", "e", "<", "/", "h", "1", ">",
      "E", "m", "o", "j", "i", ":", " ", Globe, "<", "b", "r", ">", CR, LF, CR, LF,
      "<", "p", ">", "n", "e", "w", " ", "l", "i", "n", "e", " ", "t", "e", "s", "t", "<", "/", "p", ">", CR, LF>>
AppBody == <<"o", "k">>

HandlerOutcomes(f) ==
    CASE f.func = "default_not_found" ->
            {[raised |-> f.kwargs # <<>>, body |-> IF f.kwargs = <<>> THEN NotFoundBody ELSE <<>>]}
      [] f.func = "default_main_page" ->
            {[raised |-> f.kwargs # <<>>, body |-> IF f.kwargs = <<>> THEN MainPageBody ELSE <<>>]}
      [] OTHER -> {[raised |-> FALSE, body |-> AppBody], [raised |-> TRUE, body |-> <<>>]}

(***************************************************************************)
(* Route tables.  A dict is a sequence of [key, val] pairs with distinct   *)
(* keys, in insertion order; a key of the mapping given to start_server is *)
(* a DSL string or an integer status code.                                 *)
(***************************************************************************)
StrKey(path) == [kind |-> "str", path |-> path, code |-> 0]
IntKey(code) == [kind |-> "int", path |-> <<>>, code |-> code]

\* d[key] = val
DictSet(d, key, val) ==
    IF \E i \in DOMAIN d : d[i].key = key
    THEN [i \in DOMAIN d |-> IF d[i].key = key THEN [key |-> key, val |-> val] ELSE d[i]]
    ELSE Append(d, [key |-> key, val |-> val])

\* a | b, and a dict built from pairs in order
RECURSIVE DictFrom(_, _)
DictFrom(d, pairs) ==
    IF pairs = <<>> THEN d ELSE DictFrom(DictSet(d, pairs[1].key, pairs[1].val), Tail(pairs))

\* {status_code: func for status_code, func in d.items() if type(status_code) is int}
RECURSIVE IntKeyed(_)
IntKeyed(d) ==
    IF d = <<>> THEN <<>>
    ELSE IF d[1].key.kind = "int"
    THEN DictFrom(<<[key |-> d[1].key.code, val |-> d[1].val]>>, IntKeyed(Tail(d)))
    ELSE IntKeyed(Tail(d))

\* {route_dsl_to_regex(path): func for path, func in d.items() if type(path) is str}
RECURSIVE CompiledRoutes(_)
CompiledRoutes(d) ==
    IF d = <<>> THEN <<>>
    ELSE IF d[1].key.kind = "str"
    THEN DictFrom(<<[key |-> route_dsl_to_regex(d[1].key.path), val |-> d[1].val]>>, CompiledRoutes(Tail(d)))
    ELSE CompiledRoutes(Tail(d))

\* the mapping of the sample application, lines 314-317
SampleRoutes ==
    << [key |-> StrKey(<<"/">>), val |-> "default_main_page"],
       [key |-> StrKey(<<"/", "4", "0", "4">>), val |-> "default_not_found"] >>

\* an application with a parameter route, a literal route it shadows, and
\* its own 404 handler
AppRoutes ==
    << [key |-> StrKey(<<"/", "u", "/", "<", "i", "d", ">">>), val |-> "app_handler"],
       [key |-> StrKey(<<"/", "u", "/", "n", "e", "w">>), val |-> "app_new"],
       [key |-> StrKey(<<"/">>), val |-> "app_handler"],
       [key |-> IntKey(404), val |-> "app_not_found"] >>

\* the literal route registered before the parameter route that also matches
\* it, and a route that is a prefix of both
SpecificFirstRoutes ==
    << [key |-> StrKey(<<"/", "u", "/", "n", "e", "w">>), val |-> "app_new"],
       [key |-> StrKey(<<"/", "u", "/", "<", "i", "d", ">">>), val |-> "app_handler"],
       [key |-> StrKey(<<"/", "u">>), val |-> "app_list"] >>

\* routes whose literal part holds characters the regex compiler reads as
\* operators
MetaRoutes ==
    << [key |-> StrKey(<<"/", "a", ".", "b">>), val |-> "app_handler"],
       [key |-> StrKey(<<"/", "v", "+">>), val |-> "app_new"] >>

RouteTables == {SampleRoutes, AppRoutes, SpecificFirstRoutes, MetaRoutes}

\* start_server, lines 289-293: the two tables handed to request_handler
start_server(user_routes) ==
    LET default_routes == <<[key |-> IntKey(404), val |-> "default_not_found"]>>
        merged == DictFrom(default_routes, user_routes)
    IN [special_routes |-> IntKeyed(merged), routes |-> CompiledRoutes(merged)]

\* router with the miss forgotten: a path no pattern matches gets the first
\* route instead of ValueError
router_never_misses(routes, path) ==
    LET hits == {i \in DOMAIN routes : ReFullMatch(routes[i].key, path).ok}
        pick == IF hits = {} THEN 1 ELSE Min(hits)
    IN [found |-> TRUE, func |-> routes[pick].val, kwargs |-> ReFullMatch(routes[pick].key, path).caps]

\* router returning the last pattern that matches instead of the first
router_last_hit(routes, path) ==
    LET hits == {i \in DOMAIN routes : ReFullMatch(routes[i].key, path).ok}
    IN IF hits = {} THEN [found |-> FALSE, func |-> "", kwargs |-> <<>>]
       ELSE [found |-> TRUE,
             func |-> routes[Max(hits)].val,
             kwargs |-> ReFullMatch(routes[Max(hits)].key, path).caps]

\* router, lines 69-76: the first pattern, in insertion order, that matches
\* the whole path; found = FALSE stands for ValueError
router(routes, path) ==
    LET hits == {i \in DOMAIN routes : ReFullMatch(routes[i].key, path).ok}
    IN IF hits = {} THEN [found |-> FALSE, func |-> "", kwargs |-> <<>>]
       ELSE [found |-> TRUE,
             func |-> routes[Min(hits)].val,
             kwargs |-> ReFullMatch(routes[Min(hits)].key, path).caps]


(***************************************************************************)
(* The writer.  io is [buf, closed, log]: what writer.write was given, in  *)
(* order; the number of writer.close() calls; and the history of the       *)
(* connection's reads (with "eof" after one that met EOF), writes, closes  *)
(* and handler calls.                                                      *)
(***************************************************************************)
StatusLine(code, text) == [kind |-> "status", code |-> code, text |-> text, name |-> "", value |-> <<>>]
HeaderLine(name, value) == [kind |-> "header", code |-> 0, text |-> "", name |-> name, value |-> value]
BlankLine == [kind |-> "blank", code |-> 0, text |-> "", name |-> "", value |-> <<>>]
BodyOctets(octets) == [kind |-> "body", code |-> 0, text |-> "", name |-> "", value |-> octets]

Note(io, event) == [io EXCEPT !.log = Append(@, event)]
Write(io, data) == [io EXCEPT !.buf = Append(@, data), !.log = Append(@, "write")]
Drain(io) == Note(io, "drain")
Close(io) == [io EXCEPT !.closed = @ + 1, !.log = Append(@, "close")]

RECURSIVE WriteHeaders(_, _)
WriteHeaders(io, headers) ==
    IF headers = <<>> THEN io
    ELSE WriteHeaders(Write(io, HeaderLine(headers[1][1], headers[1][2])), Tail(headers))

\* response_single_line, lines 255-261
response_single_line(io, status_code, status_text, headers) ==
    Close(Drain(Write(WriteHeaders(Write(io, StatusLine(status_code, status_text)), headers), BlankLine)))

\* bad_request with its two statements in the other order: the writer is
\* closed and then the response is written
bad_request_close_first(io) == response_single_line(Close(io), 400, "Bad Request", <<>>)

\* bad_request, lines 82-91, when awaited
bad_request(io) == Close(response_single_line(io, 400, "Bad Request", <<>>))

\* response, lines 263-276
response(io, status_code, status_text, headers, body) ==
    LET octets == Encode(body)
        all == Append(headers, <<"Content-Length", Str(Len(octets))>>)
    IN Close(Drain(Write(Write(WriteHeaders(Write(io, StatusLine(status_code, status_text)), all),
                               BlankLine),
                         BodyOctets(octets))))

(***************************************************************************)
(* What the client sends.  A request is chosen as its parts (req) and      *)
(* serialised to the octets the reader gets (stream); the server sees only *)
(* the octets.                                                             *)
(***************************************************************************)
FieldLine(name, sep, value) == [name |-> name, sep |-> sep, value |-> value]
NameHost == <<"H", "o", "s", "t">>
NameContentLength == KeyContentLengthMixed
NameContentType == <<"C", "o", "n", "t", "e", "n", "t", "-", "T", "y", "p", "e">>
NameConnection == <<"C", "o", "n", "n", "e", "c", "t", "i", "o", "n">>
NameTransferEncoding ==
    <<"T", "r", "a", "n", "s", "f", "e", "r", "-", "E", "n", "c", "o", "d", "i", "n", "g">>
ColonSp == <<":", " ">>
ValClose == <<"c", "l", "o", "s", "e">>
ValKeepAlive == <<"k", "e", "e", "p", "-", "a", "l", "i", "v", "e">>
ValChunked == <<"c", "h", "u", "n", "k", "e", "d">>
FormUrlencoded ==
    <<"a", "p", "p", "l", "i", "c", "a", "t", "i", "o", "n", "/", "x", "-", "w", "w", "w", "-",
      "f", "o", "r", "m", "-", "u", "r", "l", "e", "n", "c", "o", "d", "e", "d">>

HostX == FieldLine(NameHost, ColonSp, <<"x">>)
ContentTypeHtml == FieldLine(NameContentType, ColonSp, TextHtml)
ContentLength2 == FieldLine(NameContentLength, ColonSp, <<"2">>)
TransferEncodingChunked == FieldLine(NameTransferEncoding, ColonSp, ValChunked)

FieldLines ==
    { HostX,
      FieldLine(ToLower(NameHost), ColonSp, <<"y">>),
      FieldLine(NameHost, <<>>, <<>>),
      FieldLine(NameContentLength, ColonSp, <<"0">>),
      ContentLength2,
      FieldLine(NameContentLength, ColonSp, <<"a", "b", "c">>),
      FieldLine(NameContentLength, ColonSp, <<"-", "1">>),
      FieldLine(NameContentLength, ColonSp, <<"1", "0", "4", "8", "5", "7", "7">>),
      FieldLine(NameConnection, ColonSp, ValClose),
      FieldLine(NameConnection, ColonSp, ValKeepAlive),
      FieldLine(NameContentType, ColonSp, ApplicationJson),
      FieldLine(NameContentType, ColonSp, FormUrlencoded),
      TransferEncodingChunked }

HeaderPrefixes == { <<>>, <<HostX>>, <<HostX, ContentTypeHtml>> }

RECURSIVE SeqsUpTo(_, _)
SeqsUpTo(S, n) ==
    IF n = 0 THEN {<<>>}
    ELSE LET shorter == SeqsUpTo(S, n - 1)
         IN shorter \cup {Append(q, x) : q \in shorter, x \in S}

HeaderBlocks == {p \o e : p \in HeaderPrefixes, e \in SeqsUpTo(FieldLines, MaxHeaders)}
Bodies == {[i \in 1..n |-> "a"] : n \in 0..MaxBody}

\* what a client that frames its body as chunks sends after the header
\* block: one chunk "<hex size> CRLF <payload> CRLF" when there is a payload,
\* then the last chunk "0 CRLF" and the CRLF that ends the empty trailer
HexSeq == DigitSeq \o <<"a", "b", "c", "d", "e", "f">>
RECURSIVE Hex(_)
Hex(n) == IF n < 16 THEN <<HexSeq[n + 1]>> ELSE Hex(n \div 16) \o <<HexSeq[(n % 16) + 1]>>
ChunkedEncode(payload) ==
    (IF payload = <<>> THEN <<>> ELSE Hex(Len(payload)) \o CRLF \o payload \o CRLF)
    \o <<"0">> \o CRLF \o CRLF
ChunkedBlocks ==
    { <<HostX, ContentTypeHtml, TransferEncodingChunked>>,
      <<HostX, ContentTypeHtml, TransferEncodingChunked, ContentLength2>>,
      <<HostX, ContentTypeHtml, ContentLength2, TransferEncodingChunked>> }

Methods == {GET, HEAD, POST, PUT, DELETE, PATCH, OPTIONS, <<"B", "R", "E", "W">>, <<"G", "@", "T">>, <<>>}
Targets ==
    { <<"/">>, <<"/", "n", "o", "p", "e">>, <<"/", "u", "/", "7">>, <<"/", "u", "/", "n", "e", "w">>,
      <<"/", "4", "0", "4">>, <<"/", "a", "&", "b">>, <<"/", "/", "u", "/", "7">>,
      <<"/", "/", "x", "/", "u", "/", "7">>,
      <<"/", "?", "a", "=", "1">>, <<"u">>, <<"/", "a", ".", "b">>,
      <<"/", "a", "=", "b">>, <<"/", "a", "x", "b">>, <<"/", "v", "v">>,
      <<"/", "u">>, <<"/", "u", "/">>, <<"/", "u", "/", "7", "/", "x">> }
Versions == {HTTP11, HTTP10, HTTP1, HttpPrefix \o <<"2">>, HttpPrefix \o <<"x">>}

\* request lines of every shape, followed by a plain header block
StartLineRequests ==
    [fields : ({<<m, t, v>> : m \in Methods, t \in Targets, v \in Versions}
               \cup {<<GET, <<"/">>>>, <<GET, <<"/">>, HTTP11, <<"x">>>>}),
     headers : {<<HostX>>},
     body : {<<>>},
     cut : {"none", "start_line", "header_block"}]

\* header blocks of every shape after a plain request line; only a POST is
\* followed by body octets, plain or framed as chunks
HeaderRequests ==
    [fields : {<<GET, <<"/">>, HTTP11>>, <<GET, <<"/">>, HTTP10>>},
     headers : HeaderBlocks,
     body : {<<>>},
     cut : {"none"}]
    \cup
    [fields : {<<POST, <<"/">>, HTTP11>>},
     headers : HeaderBlocks,
     body : Bodies,
     cut : {"none"}]
    \cup
    [fields : {<<POST, <<"/">>, HTTP11>>},
     headers : ChunkedBlocks,
     body : {ChunkedEncode(p) : p \in Bodies},
     cut : {"none"}]

\* the other unsafe methods with a framed body and a Content-Type that is
\* absent, allowed or not allowed
OtherUnsafeRequests ==
    [fields : {<<m, <<"/">>, HTTP11>> : m \in {PUT, DELETE, PATCH}},
     headers : { <<HostX, ContentLength2>>,
                 <<HostX, ContentTypeHtml, ContentLength2>>,
                 <<HostX, ContentLength2, FieldLine(NameContentType, ColonSp, ApplicationJson)>>,
                 <<HostX, ContentLength2, FieldLine(NameContentType, ColonSp, FormUrlencoded)>> },
     body : Bodies,
     cut : {"none"}]

\* the connections of the model: a request and the mapping given to
\* start_server
Connections ==
    [request : StartLineRequests, user_routes : RouteTables]
    \cup [request : HeaderRequests \cup OtherUnsafeRequests, user_routes : {AppRoutes}]

RECURSIVE Join(_, _)
Join(parts, sep) ==
    IF parts = <<>> THEN <<>>
    ELSE IF Len(parts) = 1 THEN parts[1]
    ELSE parts[1] \o sep \o Join(Tail(parts), sep)

FormatFieldLine(f) == f.name \o f.sep \o f.value

RECURSIVE FormatHeaders(_)
FormatHeaders(hs) ==
    IF hs = <<>> THEN <<>> ELSE FormatFieldLine(hs[1]) \o CRLF \o FormatHeaders(Tail(hs))

\* the octets of request r; a cut request stops short of the terminator of
\* its request line or of its header block, and then the peer closes
Serialise(r) ==
    LET line == Join(r.fields, <<SP>>)
    IN CASE r.cut = "start_line" -> line \o <<CR>>
         [] r.cut = "header_block" -> line \o CRLF \o FormatHeaders(r.headers)
         [] OTHER -> line \o CRLF \o FormatHeaders(r.headers) \o CRLF \o r.body


(***************************************************************************)
(* State                                                                   *)
(***************************************************************************)
VARIABLES
    req,               \* the request the client chose (never read by the server)
    stream,            \* the octets the reader has not returned yet; EOF follows
    user_routes,       \* the mapping given to start_server
    routes,            \* compiled path routes handed to request_handler
    special_routes,    \* status-keyed routes handed to request_handler
    pc,                \* where request_handler stands
    start_line,        \* locals of request_handler
    method,
    http_version,
    request_target,
    route_func,
    header_fields_raw,
    header_fields,
    content_length,
    content,
    response_body,
    io,                \* the writer and the history of the connection
    exc,               \* the exception that left request_handler, or "none"
    loop_closed        \* the transport was closed by the event loop's callback

locals == <<start_line, method, http_version, request_target, route_func,
            header_fields_raw, header_fields, content_length, content, response_body>>
tables == <<req, user_routes, routes, special_routes>>
vars == <<req, stream, user_routes, routes, special_routes, pc, start_line, method, http_version,
          request_target, route_func, header_fields_raw, header_fields, content_length,
          content, response_body, io, exc, loop_closed>>

Unbound == [bound |-> FALSE, n |-> 0]
NoRoute == [found |-> FALSE, func |-> "", kwargs |-> <<>>]

Init ==
    /\ \E c \in Connections :
          /\ req = c.request
          /\ stream = Serialise(c.request)
          /\ user_routes = c.user_routes
          /\ routes = start_server(c.user_routes).routes
          /\ special_routes = start_server(c.user_routes).special_routes
    /\ pc = "read_start_line"
    /\ start_line = <<>>
    /\ method = <<>>
    /\ http_version = <<>>
    /\ request_target = <<>>
    /\ route_func = NoRoute
    /\ header_fields_raw = <<>>
    /\ header_fields = <<>>
    /\ content_length = Unbound
    /\ content = <<>>
    /\ response_body = <<>>
    /\ io = [buf |-> <<>>, closed |-> 0, log |-> <<>>]
    /\ exc = "none"
    /\ loop_closed = FALSE

(***************************************************************************)
(* reader.readuntil(sep) and reader.readexactly(n) on a buffer that ends   *)
(* with EOF: [ok, data, rest]; ok = FALSE stands for IncompleteReadError,  *)
(* which leaves the buffer empty.  The requests of the model are far       *)
(* shorter than the reader's limit, so LimitOverrunError does not occur;   *)
(* no read of the source is given a timeout.                               *)
(***************************************************************************)
readuntil(buffer, sep) ==
    LET i == Find(buffer, sep, 1)
    IN IF i = 0 THEN [ok |-> FALSE, data |-> <<>>, rest |-> <<>>]
       ELSE [ok |-> TRUE,
             data |-> SubSeq(buffer, 1, i + Len(sep) - 1),
             rest |-> SubSeq(buffer, i + Len(sep), Len(buffer))]

readexactly(buffer, n) ==
    IF Len(buffer) < n THEN [ok |-> FALSE, data |-> <<>>, rest |-> <<>>]
    ELSE [ok |-> TRUE, data |-> SubSeq(buffer, 1, n), rest |-> SubSeq(buffer, n + 1, Len(buffer))]

(***************************************************************************)
(* Lines 100-112: the read of the request line.  The three except clauses  *)
(* close the writer and fall through to line 112, where start_line is not  *)
(* bound: UnboundLocalError leaves the coroutine.                          *)
(***************************************************************************)
ReadStartLine ==
    /\ pc = "read_start_line"
    /\ LET r == readuntil(stream, CRLF)
           io1 == Note(io, "readuntil_crlf")
           eof == Note(io1, "eof")
       IN /\ stream' = r.rest
          /\ IF r.ok
             THEN /\ start_line' = r.data
                  /\ io' = io1
                  /\ exc' = exc
                  /\ pc' = "parse_start_line"
             ELSE /\ start_line' = start_line
                  /\ io' = Close(eof)
                  /\ exc' = "UnboundLocalError"
                  /\ pc' = "raised"
    /\ UNCHANGED <<tables, method, http_version, request_target, route_func, header_fields_raw,
                   header_fields, content_length, content, response_body, loop_closed>>

(***************************************************************************)
(* Lines 112-165: the checks of the request line and the early route       *)
(* lookup.  The outcome is [io, route, next].                              *)
(***************************************************************************)
\* line 138 calls bad_request without await: the coroutine object is dropped
\* and its body never runs
bad_request_not_awaited(io0) == io0

StartLineOutcome(io0, parts, table) ==
    IF Len(parts) # 3
    THEN [io |-> bad_request(io0), route |-> NoRoute, next |-> "returned"]
    ELSE IF ~VersionSyntaxOk(parts[3])
    THEN [io |-> bad_request(io0), route |-> NoRoute, next |-> "returned"]
    ELSE IF parts[3] \notin HTTP_VERSIONS_ALLOWED
    THEN [io |-> response_single_line(io0, 505, "HTTP Version Not Supported", <<>>),
          route |-> NoRoute, next |-> "returned"]
    ELSE IF ~MethodSyntaxOk(parts[1])
    THEN [io |-> bad_request_not_awaited(io0), route |-> NoRoute, next |-> "returned"]
    ELSE IF parts[1] \notin HTTP_METHODS_IMPLEMENTED
    THEN [io |-> response_single_line(io0, 501, "Not Implemented", <<>>),
          route |-> NoRoute, next |-> "returned"]
    ELSE IF ~TargetSyntaxOk(parts[2])
    THEN [io |-> bad_request(io0), route |-> NoRoute, next |-> "returned"]
    ELSE LET r == router(table, UrlPath(parts[2]))
         IN IF ~r.found
            THEN [io |-> response_single_line(io0, 404, "Not Found", <<>>),
                  route |-> NoRoute, next |-> "returned"]
            ELSE [io |-> io0, route |-> r, next |-> "read_header_block"]

ParseStartLine ==
    /\ pc = "parse_start_line"
    /\ LET line == SubSeq(start_line, 1, Len(start_line) - 2)
           parts == Split(line, <<SP>>)
           out == StartLineOutcome(io, parts, routes)
       IN /\ start_line' = line
          /\ IF Len(parts) = 3
             THEN /\ method' = parts[1]
                  /\ request_target' = parts[2]
                  /\ http_version' = parts[3]
             ELSE UNCHANGED <<method, request_target, http_version>>
          /\ io' = out.io
          /\ route_func' = out.route
          /\ pc' = out.next
    /\ UNCHANGED <<tables, stream, header_fields_raw, header_fields, content_length, content,
                   response_body, exc, loop_closed>>


(***************************************************************************)
(* Line 177: the read of the header block.  No except clause surrounds it: *)
(* IncompleteReadError leaves the coroutine.                               *)
(***************************************************************************)
ReadHeaderBlock ==
    /\ pc = "read_header_block"
    /\ LET r == readuntil(stream, CRLFCRLF)
       IN /\ stream' = r.rest
          /\ io' = IF r.ok THEN Note(io, "readuntil_crlfcrlf")
                   ELSE Note(Note(io, "readuntil_crlfcrlf"), "eof")
          /\ header_fields_raw' = r.data
          /\ exc' = IF r.ok THEN exc ELSE "IncompleteReadError"
          /\ pc' = IF r.ok THEN "parse_header_fields" ELSE "raised"
    /\ UNCHANGED <<tables, start_line, method, http_version, request_target, route_func,
                   header_fields, content_length, content, response_body, loop_closed>>

(***************************************************************************)
(* Lines 178-199: the loop over the field lines.  header_fields is a dict  *)
(* from the lowercased name to (name, value).  The result is [status,      *)
(* fields] with status "ok", "duplicate" (line 195) or "AttributeError"    *)
(* (re.match returned None on line 187; the except clause names            *)
(* ValueError).                                                            *)
(***************************************************************************)
DictHas(d, key) == \E i \in DOMAIN d : d[i].key = key
DictGet(d, key) == d[CHOOSE i \in DOMAIN d : d[i].key = key].val

\* re.match(br'([tchar]+)[:](.*)', line): [ok, name, value]; "." stops at LF
MatchFieldLine(line) ==
    LET n == RunLength(line, 1, HEADER_FIELDS_TCHAR)
        rest == SubSeq(line, n + 2, Len(line))
    IN IF n = 0 \/ n + 1 > Len(line) \/ line[n + 1] # ":"
       THEN [ok |-> FALSE, name |-> <<>>, value |-> <<>>]
       ELSE [ok |-> TRUE,
             name |-> SubSeq(line, 1, n),
             value |-> SubSeq(rest, 1, RunLength(rest, 1, Range(rest) \ {LF}))]

\* line 194: field_name as received is looked up among the lowercased keys
IsDuplicate(fields, field_name) == DictHas(fields, field_name)

RECURSIVE FieldLoop(_, _)
FieldLoop(lines, fields) ==
    IF lines = <<>> \/ lines[1] = <<>> THEN [status |-> "ok", fields |-> fields]
    ELSE LET m == MatchFieldLine(Strip(lines[1]))
         IN IF ~m.ok THEN [status |-> "AttributeError", fields |-> fields]
            ELSE IF IsDuplicate(fields, m.name) THEN [status |-> "duplicate", fields |-> fields]
            ELSE FieldLoop(Tail(lines), DictSet(fields, ToLower(m.name), <<m.name, Strip(m.value)>>))

(***************************************************************************)
(* Lines 205-225: Content-Length.  The result is [act, n]: "continue" with *)
(* content_length n (bound FALSE when the header is absent), "bad_request",*)
(* "length_required", or "KeyError" when the ValueError clause on line 224 *)
(* looks up b"Content-Length" among the lowercased keys.                   *)
(***************************************************************************)
\* ContentLengthCheck with the KeyError clause doing nothing: a request
\* without Content-Length goes on whatever its method
ContentLengthCheck_no_411(m, fields) ==
    IF ~DictHas(fields, KeyContentLength)
    THEN [act |-> "continue", n |-> Unbound]
    ELSE LET p == ParseInt(DictGet(fields, KeyContentLength)[2])
             bound == [bound |-> TRUE, n |-> p.n]
         IN IF ~p.ok
            THEN [act |-> IF DictHas(fields, KeyContentLengthMixed) THEN "bad_request" ELSE "KeyError",
                  n |-> Unbound]
            ELSE IF m \in HTTP_METHOD_SAFE THEN [act |-> "bad_request", n |-> bound]
            ELSE IF p.n > CONTENT_LENGTH_MAX THEN [act |-> "bad_request", n |-> bound]
            ELSE [act |-> "continue", n |-> bound]

ContentLengthCheck(m, fields) ==
    IF ~DictHas(fields, KeyContentLength)
    THEN [act |-> IF m \notin HTTP_METHOD_SAFE THEN "length_required" ELSE "continue", n |-> Unbound]
    ELSE LET p == ParseInt(DictGet(fields, KeyContentLength)[2])
             bound == [bound |-> TRUE, n |-> p.n]
         IN IF ~p.ok
            THEN [act |-> IF DictHas(fields, KeyContentLengthMixed) THEN "bad_request" ELSE "KeyError",
                  n |-> Unbound]
            ELSE IF m \in HTTP_METHOD_SAFE THEN [act |-> "bad_request", n |-> bound]
            ELSE IF p.n > CONTENT_LENGTH_MAX THEN [act |-> "bad_request", n |-> bound]
            ELSE [act |-> "continue", n |-> bound]

\* ContentTypeCheck with both checks left out: any Content-Type, or none,
\* goes on
ContentTypeCheck_any(m, fields) == "continue"

\* Lines 227-239: Content-Type; "continue" or "bad_request"
ContentTypeCheck(m, fields) ==
    IF DictHas(fields, KeyContentType)
    THEN IF m \in HTTP_METHOD_SAFE THEN "bad_request"
         ELSE IF DictGet(fields, KeyContentType)[2] \notin CONTENT_TYPE_ALLOWED THEN "bad_request"
         ELSE "continue"
    ELSE IF m \notin HTTP_METHOD_SAFE THEN "bad_request" ELSE "continue"

\* HeaderOutcome with the "return 0" after the Content-Type rejection
\* forgotten: the 400 is written and the request goes on
HeaderOutcome_no_return(io0, m, raw) ==
    LET loop == FieldLoop(Split(raw, CRLF), <<>>)
        cl == ContentLengthCheck(m, loop.fields)
        ct == ContentTypeCheck(m, loop.fields)
        stop(io1, e, next) == [io |-> io1, fields |-> loop.fields, n |-> cl.n, exc |-> e, next |-> next]
        after == IF m \notin HTTP_METHOD_SAFE THEN "read_body" ELSE "call_handler"
    IN IF loop.status = "AttributeError" THEN
            [io |-> io0, fields |-> loop.fields, n |-> Unbound, exc |-> "AttributeError", next |-> "raised"]
       ELSE IF loop.status = "duplicate" THEN
            [io |-> bad_request(io0), fields |-> loop.fields, n |-> Unbound, exc |-> "none", next |-> "returned"]
       ELSE IF cl.act = "KeyError" THEN stop(io0, "KeyError", "raised")
       ELSE IF cl.act = "bad_request" THEN stop(bad_request(io0), "none", "returned")
       ELSE IF cl.act = "length_required" THEN
            stop(response_single_line(io0, 411, "Length Required", <<>>), "none", "returned")
       ELSE IF ct = "bad_request" THEN stop(bad_request(io0), "none", after)
       ELSE stop(io0, "none", after)

\* Lines 178-242 as one outcome: [io, fields, n, exc, next]
HeaderOutcome(io0, m, raw) ==
    LET loop == FieldLoop(Split(raw, CRLF), <<>>)
        cl == ContentLengthCheck(m, loop.fields)
        ct == ContentTypeCheck(m, loop.fields)
        stop(io1, e, next) == [io |-> io1, fields |-> loop.fields, n |-> cl.n, exc |-> e, next |-> next]
    IN IF loop.status = "AttributeError" THEN
            [io |-> io0, fields |-> loop.fields, n |-> Unbound, exc |-> "AttributeError", next |-> "raised"]
       ELSE IF loop.status = "duplicate" THEN
            [io |-> bad_request(io0), fields |-> loop.fields, n |-> Unbound, exc |-> "none", next |-> "returned"]
       ELSE IF cl.act = "KeyError" THEN stop(io0, "KeyError", "raised")
       ELSE IF cl.act = "bad_request" THEN stop(bad_request(io0), "none", "returned")
       ELSE IF cl.act = "length_required" THEN
            stop(response_single_line(io0, 411, "Length Required", <<>>), "none", "returned")
       ELSE IF ct = "bad_request" THEN stop(bad_request(io0), "none", "returned")
       ELSE IF m \notin HTTP_METHOD_SAFE THEN stop(io0, "none", "read_body")
       ELSE stop(io0, "none", "call_handler")

ParseHeaderFields ==
    /\ pc = "parse_header_fields"
    /\ LET out == HeaderOutcome(io, method, header_fields_raw)
       IN /\ io' = out.io
          /\ header_fields' = out.fields
          /\ content_length' = out.n
          /\ exc' = out.exc
          /\ pc' = out.next
    /\ UNCHANGED <<tables, stream, start_line, method, http_version, request_target, route_func,
                   header_fields_raw, content, response_body, loop_closed>>

(***************************************************************************)
(* Lines 242-244: the read of the body of an unsafe method.  readexactly   *)
(* raises ValueError for a negative size and IncompleteReadError at EOF;   *)
(* neither is caught.                                                      *)
(***************************************************************************)
ReadBody ==
    /\ pc = "read_body"
    /\ LET n == content_length.n
           r == readexactly(stream, n)
       IN /\ io' = IF n >= 0 /\ ~r.ok THEN Note(Note(io, "readexactly"), "eof")
                   ELSE Note(io, "readexactly")
          /\ IF n < 0
             THEN /\ exc' = "ValueError"
                  /\ pc' = "raised"
                  /\ UNCHANGED <<stream, content>>
             ELSE /\ stream' = r.rest
                  /\ content' = r.data
                  /\ exc' = IF r.ok THEN exc ELSE "IncompleteReadError"
                  /\ pc' = IF r.ok THEN "call_handler" ELSE "raised"
    /\ UNCHANGED <<tables, start_line, method, http_version, request_target, route_func,
                   header_fields_raw, header_fields, content_length, response_body, loop_closed>>

(***************************************************************************)
(* Lines 248-249: route_func is a functools.partial, the keys of           *)
(* special_routes are integers, and a partial equals no integer: no key    *)
(* of special_routes is route_func, "route_func not in special_routes" is  *)
(* true.  The handler is awaited and what it raises is not caught.         *)
(***************************************************************************)
InSpecialRoutes(f, special) == \E i \in DOMAIN special : FALSE

CallHandler ==
    /\ pc = "call_handler"
    /\ ~InSpecialRoutes(route_func, special_routes)
    /\ \E o \in HandlerOutcomes(route_func) :
          IF o.raised
          THEN /\ io' = Note(io, "handler_call")
               /\ exc' = "HandlerError"
               /\ pc' = "raised"
               /\ UNCHANGED response_body
          ELSE /\ io' = Note(Note(io, "handler_call"), "handler_return")
               /\ response_body' = o.body
               /\ exc' = exc
               /\ pc' = "write_response"
    /\ UNCHANGED <<tables, stream, start_line, method, http_version, request_target, route_func,
                   header_fields_raw, header_fields, content_length, content, loop_closed>>

\* Line 250: the 200 response
WriteResponse ==
    /\ pc = "write_response"
    /\ io' = response(io, 200, "OK", << <<"Content-Type", TextHtml>> >>, response_body)
    /\ pc' = "returned"
    /\ UNCHANGED <<tables, stream, locals, exc, loop_closed>>

(***************************************************************************)
(* The connection task is over.  request_handler is the client_connected_cb*)
(* given to asyncio.start_server on lines 297-302; when it ends by an      *)
(* exception the stream protocol closes the transport on Python 3.12 and   *)
(* later and leaves it alone before 3.12; after a normal return it never   *)
(* touches it.  The source does not pin the version.                       *)
(***************************************************************************)
TaskDone ==
    /\ pc \in {"returned", "raised"}
    /\ pc' = "finished"
    /\ loop_closed' \in (IF pc = "raised" THEN BOOLEAN ELSE {FALSE})
    /\ UNCHANGED <<tables, stream, locals, io, exc>>

Next ==
    \/ ReadStartLine
    \/ ParseStartLine
    \/ ReadHeaderBlock
    \/ ParseHeaderFields
    \/ ReadBody
    \/ CallHandler
    \/ WriteResponse
    \/ TaskDone

Spec == Init /\ [][Next]_vars


(***************************************************************************)
(* Vocabulary of the properties.  What the client sent is read from req;   *)
(* what the server did is read from io, exc, pc and loop_closed.           *)
(***************************************************************************)
Finished == pc = "finished"
Events == Range(io.log)
IsStatusLine(w) == w.kind = "status"
StatusLinesWritten == SelectSeq(io.buf, IsStatusLine)
Wrote(code) == \E i \in DOMAIN io.buf : io.buf[i].kind = "status" /\ io.buf[i].code = code
WroteError == \E i \in DOMAIN io.buf : io.buf[i].kind = "status" /\ io.buf[i].code >= 400
WriterClosed == io.closed > 0
HandlerInvoked == "handler_call" \in Events
HeaderBlockRead == "readuntil_crlfcrlf" \in Events
PastStartLine == pc \notin {"read_start_line", "parse_start_line"}

\* the request as the client composed it
StartLineComplete == req.cut # "start_line"
ThreeFields == Len(req.fields) = 3
ReqMethod == req.fields[1]
ReqTarget == req.fields[2]
ReqVersion == req.fields[3]
ReqHas(name) == \E i \in DOMAIN req.headers : ToLower(req.headers[i].name) = ToLower(name)
ReqHasValue(name, value) ==
    \E i \in DOMAIN req.headers :
        ToLower(req.headers[i].name) = ToLower(name) /\ req.headers[i].value = value
ReqCount(name) == Cardinality({i \in DOMAIN req.headers : ToLower(req.headers[i].name) = ToLower(name)})
ReqHeadersWellFormed == \A i \in DOMAIN req.headers : req.headers[i].sep = ColonSp
ReqHeaderBlockComplete == req.cut = "none" /\ req.headers # <<>>

\* the token syntax of the specification: [A-Za-z0-9!#$%&'*+.^_`|~-]+
SpecTokenChars ==
    Upper \cup Lower \cup Digits
    \cup {"!", "#", "$", "%", "&", "'", "*", "+", ".", "^", "_", Backtick, "|", "~", "-"}
SpecIsToken(m) == m # <<>> /\ \A i \in DOMAIN m : m[i] \in SpecTokenChars
SpecImplemented == {GET, HEAD, POST, PUT, DELETE, PATCH}
SpecVersions == {HTTP10, HTTP11, HTTP1}

\* origin-form of the specification: /[\w/]*(\?[\w=&]*)?
SpecPathOf(t) == SubSeq(t, 1, RunLength(t, 1, Range(t) \ {"?"}))
SpecIsOriginForm(t) ==
    LET path == SpecPathOf(t)
        query == SubSeq(t, Len(path) + 2, Len(t))
    IN /\ path # <<>>
       /\ path[1] = "/"
       /\ \A i \in DOMAIN path : path[i] \in WordChars \cup {"/"}
       /\ \A i \in DOMAIN query : query[i] \in WordChars \cup {"=", "&"}

\* a DSL route matches a path when they have the same number of segments
\* and each segment of the route is "<name>", facing a non-empty segment, or
\* equals the segment it faces
SpecIsParam(seg) ==
    /\ Len(seg) >= 3
    /\ seg[1] = "<"
    /\ seg[Len(seg)] = ">"
    /\ \A i \in 2..(Len(seg) - 1) : seg[i] \in WordChars
SpecRouteMatches(dsl, path) ==
    LET a == Split(dsl, <<"/">>)
        b == Split(path, <<"/">>)
    IN /\ Len(a) = Len(b)
       /\ \A i \in DOMAIN a : IF SpecIsParam(a[i]) THEN b[i] # <<>> ELSE a[i] = b[i]
SpecRouted(path) ==
    \E i \in DOMAIN user_routes :
        user_routes[i].key.kind = "str" /\ SpecRouteMatches(user_routes[i].key.path, path)

\* a route made of "/", word characters and "<name>" placeholders; what a
\* route with other characters matches is the matter of C18
RouteIsPlain(dsl) == \A i \in DOMAIN dsl : dsl[i] \in WordChars \cup {"/", "<", ">"}
UserRoutesPlain ==
    \A i \in DOMAIN user_routes :
        user_routes[i].key.kind = "str" => RouteIsPlain(user_routes[i].key.path)

\* a complete start line that is valid and names a path with no route, in an
\* application of plain routes; the path a target names is the one urlparse
\* finds in it (lines 158-159)
UnroutedValidStartLine ==
    /\ UserRoutesPlain
    /\ StartLineComplete
    /\ ThreeFields
    /\ ReqMethod \in SpecImplemented
    /\ ReqVersion \in SpecVersions
    /\ SpecIsOriginForm(ReqTarget)
    /\ ~SpecRouted(UrlPath(ReqTarget))

(***************************************************************************)
(* C1.  A connection that delivered a complete start line, and on which no *)
(* read met EOF, ends with exactly one status line written, whatever the   *)
(* outcome of validation.                                                  *)
(***************************************************************************)
C1_ExactlyOneStatusLine ==
    (Finished /\ StartLineComplete /\ "eof" \notin Events) => Len(StatusLinesWritten) = 1

(***************************************************************************)
(* C2.  Every 4xx or 5xx status line on the wire is followed, before the   *)
(* blank line that ends its header section, by the header                  *)
(* "Connection: close".                                                    *)
(***************************************************************************)
C2_ErrorResponsesSayClose ==
    \A i \in DOMAIN io.buf :
        (io.buf[i].kind = "status" /\ io.buf[i].code >= 400) =>
            \E j \in (i + 1)..Len(io.buf) :
                /\ io.buf[j] = HeaderLine("Connection", ValClose)
                /\ \A k \in (i + 1)..j : io.buf[k].kind = "header"

ReqAsksKeepAlive ==
    /\ ThreeFields
    /\ \/ ReqVersion = HTTP11 /\ ~ReqHasValue(NameConnection, ValClose)
       \/ ReqVersion = HTTP10 /\ ReqHasValue(NameConnection, ValKeepAlive)
                              /\ ~ReqHasValue(NameConnection, ValClose)

(***************************************************************************)
(* C3.  Keep-alive: once a 200 response has been written, the writer is    *)
(* closed only if the request was HTTP/1.1 with "Connection: close" or     *)
(* HTTP/1.0 without "Connection: keep-alive"; after a request that asks    *)
(* for persistence the writer stays open.                                  *)
(***************************************************************************)
C3_KeepAliveLeavesWriterOpen ==
    (Wrote(200) /\ ~WroteError /\ ReqAsksKeepAlive) => ~WriterClosed

ReqHasDuplicateName ==
    \E i, j \in DOMAIN req.headers :
        i # j /\ ToLower(req.headers[i].name) = ToLower(req.headers[j].name)

(***************************************************************************)
(* C4.  A header block with two field lines whose names are equal after    *)
(* lowercasing is answered 400 and the writer is closed, the handler is    *)
(* not invoked, and header_fields never holds a lowercased name twice.     *)
(* The first part is stated for requests without a Content-Length line, so *)
(* that the repeated name is the only fault of the header block.           *)
(***************************************************************************)
C4_DuplicateFieldRejected ==
    /\ (Finished /\ HeaderBlockRead /\ ReqHeaderBlockComplete /\ ReqHeadersWellFormed
            /\ ~ReqHas(NameContentLength) /\ ReqHasDuplicateName)
        => (Wrote(400) /\ WriterClosed /\ ~HandlerInvoked)
    /\ \A i, j \in DOMAIN header_fields :
        header_fields[i].key = header_fields[j].key => i = j

(***************************************************************************)
(* C5.  A request whose header block has no host field is answered 400,    *)
(* and the handler is invoked only for requests that have one.             *)
(***************************************************************************)
C5_MissingHostRejected ==
    /\ (Finished /\ HeaderBlockRead /\ ReqHeaderBlockComplete /\ ReqHeadersWellFormed
            /\ ~ReqHas(NameHost))
        => Wrote(400)
    /\ HandlerInvoked => ReqHas(NameHost)

(***************************************************************************)
(* C6.  Early route resolution: once a valid start line naming a path with *)
(* no route has been handled, exactly a 404 status line has been written   *)
(* and the writer closed, the coroutine has returned, the header block was *)
(* never read and no handler was invoked; and a 404 on the wire always     *)
(* means that no header block was read and no handler invoked.             *)
(***************************************************************************)
C6_RouteMissBeforeHeaders ==
    /\ (UnroutedValidStartLine /\ PastStartLine) =>
          /\ io.buf = <<StatusLine(404, "Not Found"), BlankLine>>
          /\ WriterClosed
          /\ pc \in {"returned", "finished"}
          /\ exc = "none"
          /\ ~HeaderBlockRead
          /\ ~HandlerInvoked
    /\ Wrote(404) => (~HeaderBlockRead /\ ~HandlerInvoked)

\* a connection that ended with the 404 of an unrouted path
C6_Witness == UnroutedValidStartLine /\ Finished /\ Wrote(404) /\ WriterClosed

(***************************************************************************)
(* C7.  No error escapes: no exception leaves request_handler, and when it *)
(* is over the writer has been closed.                                     *)
(***************************************************************************)
C7_NoErrorEscapes ==
    /\ exc = "none"
    /\ pc # "raised"
    /\ Finished => WriterClosed

(***************************************************************************)
(* C8.  Transport failure: when a read of the request met EOF, the         *)
(* connection ends with nothing written and with the writer closed.        *)
(***************************************************************************)
C8_EofSilentAndClosed ==
    (Finished /\ "eof" \in Events) => (io.buf = <<>> /\ (WriterClosed \/ loop_closed))

ReqSupportedVersionLine == StartLineComplete /\ ThreeFields /\ ReqVersion \in SpecVersions

(***************************************************************************)
(* C9.  Method classification, for a complete three-field start line with  *)
(* a supported version: a method that is no token is answered 400 and the  *)
(* writer closed; a token outside the six implemented methods is answered  *)
(* 501 and the writer closed; only the six go on to the header block.      *)
(***************************************************************************)
C9_MethodClassification ==
    (ReqSupportedVersionLine /\ PastStartLine) =>
        /\ ~SpecIsToken(ReqMethod) => (Wrote(400) /\ Len(StatusLinesWritten) = 1 /\ WriterClosed)
        /\ (SpecIsToken(ReqMethod) /\ ReqMethod \notin SpecImplemented)
              => (Wrote(501) /\ Len(StatusLinesWritten) = 1 /\ WriterClosed)
        /\ HeaderBlockRead => ReqMethod \in SpecImplemented

ReqContentLength == req.headers[CHOOSE i \in DOMAIN req.headers :
                                    ToLower(req.headers[i].name) = KeyContentLength].value
SpecIsNonNegInt(v) == v # <<>> /\ \A i \in DOMAIN v : v[i] \in Digits
SpecMustReject(m, v) ==
    \/ ~SpecIsNonNegInt(v)
    \/ DecimalValue(v) > 2 ^ 20
    \/ m \in {GET, HEAD} /\ DecimalValue(v) > 0
ReqOnlyContentLengthInDoubt ==
    /\ ReqHeaderBlockComplete
    /\ ReqHeadersWellFormed
    /\ ThreeFields
    /\ ReqCount(NameHost) = 1
    /\ ReqCount(NameContentLength) = 1
    /\ ~ReqHas(NameConnection)
    /\ ReqCount(NameContentType) = (IF ReqMethod = POST THEN 1 ELSE 0)
    /\ SpecIsNonNegInt(ReqContentLength) /\ DecimalValue(ReqContentLength) <= 2 ^ 20
          => Len(req.body) >= DecimalValue(ReqContentLength)

(***************************************************************************)
(* C10.  Content-Length validation.  For a request that is otherwise       *)
(* acceptable (one Host, one Content-Length, a Content-Type exactly when   *)
(* the method is POST) and whose body arrived whole, the answer is 400     *)
(* exactly when the value is no non-negative integer, or exceeds 2^20, or  *)
(* the method is GET/HEAD and the value is positive; otherwise the handler *)
(* is invoked; and a request that must be rejected has no body read.       *)
(***************************************************************************)
C10_ContentLengthValidation ==
    (Finished /\ HeaderBlockRead /\ ReqOnlyContentLengthInDoubt) =>
        IF SpecMustReject(ReqMethod, ReqContentLength)
        THEN Wrote(400) /\ "readexactly" \notin Events /\ ~HandlerInvoked
        ELSE ~Wrote(400) /\ HandlerInvoked

SpecUnsafe == {POST, PUT, DELETE, PATCH}
ReqChunked == ReqHasValue(NameTransferEncoding, ValChunked)
\* a complete request with one Host line, a well-formed header block of
\* distinct names, and neither a Content-Length nor chunked framing
ReqNoFraming ==
    /\ ThreeFields
    /\ ReqHeaderBlockComplete
    /\ ReqHeadersWellFormed
    /\ ~ReqHasDuplicateName
    /\ ReqCount(NameHost) = 1
    /\ ~ReqHas(NameContentLength)
    /\ ~ReqChunked
LengthRequiredAnswer ==
    /\ io.buf = <<StatusLine(411, "Length Required"), BlankLine>>
    /\ WriterClosed
    /\ "readexactly" \notin Events
    /\ stream = req.body
    /\ ~HandlerInvoked
DispatchedWithEmptyBody ==
    /\ HandlerInvoked
    /\ "readexactly" \notin Events
    /\ content = <<>>

(***************************************************************************)
(* C11 as claimed.  A routed request without framing header: with an       *)
(* unsafe method it is answered 411 and nothing else, the writer is        *)
(* closed, no body octet is read and no handler invoked; with GET or HEAD  *)
(* the handler is invoked and no body is read.                             *)
(***************************************************************************)
C11_LengthRequired ==
    (Finished /\ HeaderBlockRead /\ ReqNoFraming) =>
        IF ReqMethod \in SpecUnsafe THEN LengthRequiredAnswer ELSE DispatchedWithEmptyBody

(***************************************************************************)
(* C11 as amended.  The same, except that a GET or HEAD is dispatched only *)
(* when it has no Content-Type line; with one it is answered 400 and the   *)
(* handler is not invoked.                                                 *)
(***************************************************************************)
C11_LengthRequiredAmended ==
    (Finished /\ HeaderBlockRead /\ ReqNoFraming) =>
        IF ReqMethod \in SpecUnsafe THEN LengthRequiredAnswer
        ELSE IF ReqHas(NameContentType) THEN Wrote(400) /\ ~HandlerInvoked
        ELSE DispatchedWithEmptyBody

\* an unsafe request without framing header that was answered 411
C11_Witness ==
    Finished /\ HeaderBlockRead /\ ReqNoFraming /\ ReqMethod \in SpecUnsafe /\ Wrote(411)

\* the body the client sent is the chunked encoding of a payload
ReqChunkedBody == \E p \in Bodies : req.body = ChunkedEncode(p)
SpecChunkPayload == CHOOSE p \in Bodies : req.body = ChunkedEncode(p)

(***************************************************************************)
(* C12.  Chunked framing: a routed unsafe request whose transfer-encoding  *)
(* is chunked and whose body is the chunked encoding of a payload is not   *)
(* answered 411 or any other error, whether or not it also has a           *)
(* Content-Length; the whole encoded body is taken off the stream, the     *)
(* body handed on is the payload, the handler is invoked, and once it has  *)
(* returned a 200 response is written.                                     *)
(***************************************************************************)
C12_ChunkedFraming ==
    (Finished /\ HeaderBlockRead /\ ThreeFields /\ ReqMethod \in SpecUnsafe
        /\ ReqHeadersWellFormed /\ ~ReqHasDuplicateName /\ ReqChunked /\ ReqChunkedBody) =>
        /\ ~Wrote(411)
        /\ ~WroteError
        /\ stream = <<>>
        /\ content = SpecChunkPayload
        /\ HandlerInvoked
        /\ "handler_return" \in Events => Wrote(200)

\* the octets written after position j of io.buf that are body octets
RECURSIVE BodyLengthFrom(_)
BodyLengthFrom(j) ==
    IF j > Len(io.buf) THEN 0
    ELSE (IF io.buf[j].kind = "body" THEN Len(io.buf[j].value) ELSE 0) + BodyLengthFrom(j + 1)
\* the response whose status line is io.buf[i] is complete: its blank line
\* is written and the writer has been closed
ResponseComplete(i) ==
    /\ WriterClosed
    /\ \E j \in (i + 1)..Len(io.buf) : io.buf[j].kind = "blank"
BlankLineAfter(i) == Min({j \in (i + 1)..Len(io.buf) : io.buf[j].kind = "blank"})
CarriesContentLength(i) ==
    \E k \in (i + 1)..(BlankLineAfter(i) - 1) :
        io.buf[k] = HeaderLine("Content-Length", Str(BodyLengthFrom(BlankLineAfter(i) + 1)))

(***************************************************************************)
(* C13.  Every complete response on the wire, success or error, has among  *)
(* its headers a Content-Length whose value is the decimal number of body  *)
(* octets written after its blank line.                                    *)
(***************************************************************************)
C13_ContentLengthOnEveryResponse ==
    \A i \in DOMAIN io.buf :
        (io.buf[i].kind = "status" /\ ResponseComplete(i)) => CarriesContentLength(i)

\* the start line passed the checks of lines 113-155, so the router was asked
RouterConsulted ==
    /\ PastStartLine
    /\ StartLineComplete
    /\ ThreeFields
    /\ ReqVersion \in SpecVersions
    /\ ReqMethod \in SpecImplemented
    /\ TargetSyntaxOk(ReqTarget)
IsStrRoute(r) == r.key.kind = "str"
\* the path routes in the order the application registered them
SpecStrRoutes == SelectSeq(user_routes, IsStrRoute)
SpecHits(path) ==
    {i \in DOMAIN SpecStrRoutes : SpecRouteMatches(SpecStrRoutes[i].key.path, path)}
\* the parameters of a matching route: each "<name>" segment with the
\* segment of the path it faces, from left to right
RECURSIVE SpecCapturesFrom(_, _, _)
SpecCapturesFrom(a, b, i) ==
    IF i > Len(a) THEN <<>>
    ELSE (IF SpecIsParam(a[i])
          THEN <<[name |-> SubSeq(a[i], 2, Len(a[i]) - 1), value |-> b[i]]>>
          ELSE <<>>) \o SpecCapturesFrom(a, b, i + 1)
SpecCaptures(dsl, path) == SpecCapturesFrom(Split(dsl, <<"/">>), Split(path, <<"/">>), 1)

(***************************************************************************)
(* C14.  First hit, full match.  In an application of plain routes, after  *)
(* the router was asked for the path of the target: when no registered     *)
(* route equals the whole path segment by segment (a "<name>" segment      *)
(* facing any non-empty segment), the lookup missed and 404 was written;   *)
(* otherwise route_func is the handler of the earliest registered such     *)
(* route, bound to the "<name>" segments as keyword arguments, whatever    *)
(* later routes match too.                                                 *)
(***************************************************************************)
C14_FirstHitFullMatch ==
    (UserRoutesPlain /\ RouterConsulted) =>
        LET path == UrlPath(ReqTarget)
            hits == SpecHits(path)
        IN IF hits = {}
           THEN ~route_func.found /\ Wrote(404) /\ ~HandlerInvoked
           ELSE route_func = [found |-> TRUE,
                              func |-> SpecStrRoutes[Min(hits)].val,
                              kwargs |-> SpecCaptures(SpecStrRoutes[Min(hits)].key.path, path)]

\* a path that two registered routes match, resolved and dispatched
C14_Witness ==
    /\ UserRoutesPlain
    /\ RouterConsulted
    /\ Cardinality(SpecHits(UrlPath(ReqTarget))) >= 2
    /\ route_func.found
    /\ route_func.kwargs # <<>>
    /\ HandlerInvoked

\* the texts the handler registered for a status code may return
StatusHandlerBodies(code) ==
    {o.body : o \in {h \in HandlerOutcomes([found |-> TRUE,
                                              func |-> DictGet(special_routes, code),
                                              kwargs |-> <<>>]) : ~h.raised}}
UserRegistered(code) == \E i \in DOMAIN user_routes : user_routes[i].key = IntKey(code)
UserHandler(code) == user_routes[CHOOSE i \in DOMAIN user_routes : user_routes[i].key = IntKey(code)].val

(***************************************************************************)
(* C15.  The status routes always hold key 404, with the handler the       *)
(* application registered for it or else default_not_found; and every      *)
(* complete error response whose code has a status handler carries, after  *)
(* its blank line, the encoded text of that handler.                       *)
(***************************************************************************)
C15_StatusHandlerRendersError ==
    /\ DictHas(special_routes, 404)
    /\ DictGet(special_routes, 404) =
          (IF UserRegistered(404) THEN UserHandler(404) ELSE "default_not_found")
    /\ \A i \in DOMAIN io.buf :
          (/\ io.buf[i].kind = "status"
           /\ io.buf[i].code >= 400
           /\ DictHas(special_routes, io.buf[i].code)
           /\ ResponseComplete(i))
          => \E body \in StatusHandlerBodies(io.buf[i].code) :
                \E k \in (BlankLineAfter(i) + 1)..Len(io.buf) :
                    io.buf[k] = BodyOctets(Encode(body))

ReqContentType == req.headers[CHOOSE i \in DOMAIN req.headers :
                                  ToLower(req.headers[i].name) = KeyContentType].value
\* a complete request with an unsafe method, one Host line, a well-formed
\* header block of distinct names, a Content-Length that is a decimal number
\* up to 2^20, and at least that many body octets
ReqFramedUnsafe ==
    /\ ThreeFields
    /\ ReqMethod \in SpecUnsafe
    /\ ReqHeaderBlockComplete
    /\ ReqHeadersWellFormed
    /\ ~ReqHasDuplicateName
    /\ ReqCount(NameHost) = 1
    /\ ReqCount(NameContentLength) = 1
    /\ SpecIsNonNegInt(ReqContentLength)
    /\ DecimalValue(ReqContentLength) <= 2 ^ 20
    /\ Len(req.body) >= DecimalValue(ReqContentLength)
DispatchedWithBody ==
    /\ HandlerInvoked
    /\ ~WroteError
    /\ content = SubSeq(req.body, 1, DecimalValue(ReqContentLength))

(***************************************************************************)
(* C16 as claimed.  A routed unsafe request with Host and a valid          *)
(* Content-Length is dispatched to its handler with its body, whatever its *)
(* Content-Type line is and whether or not it has one; and a routed GET or *)
(* HEAD without framing header is not answered 400 for having one.         *)
(***************************************************************************)
C16_ContentTypeNeverRejects ==
    /\ (Finished /\ HeaderBlockRead /\ ReqFramedUnsafe) => DispatchedWithBody
    /\ (Finished /\ HeaderBlockRead /\ ReqNoFraming /\ ReqMethod \in {GET, HEAD}) => ~Wrote(400)

(***************************************************************************)
(* C16 as amended.  A routed unsafe request with Host and a valid          *)
(* Content-Length is dispatched to its handler with its body exactly when  *)
(* it has a Content-Type line whose value is text/html or                  *)
(* application/json; otherwise it is answered 400 and nothing else, no     *)
(* body is read and the handler is not invoked.                            *)
(***************************************************************************)
C16_ContentTypeAllowlist ==
    (Finished /\ HeaderBlockRead /\ ReqFramedUnsafe) =>
        IF ReqHas(NameContentType) /\ ReqContentType \in {TextHtml, ApplicationJson}
        THEN DispatchedWithBody
        ELSE /\ io.buf = <<StatusLine(400, "Bad Request"), BlankLine>>
             /\ "readexactly" \notin Events
             /\ ~HandlerInvoked

\* a framed unsafe request with a form-urlencoded body, answered 400
C16_Witness ==
    /\ Finished
    /\ HeaderBlockRead
    /\ ReqFramedUnsafe
    /\ ReqHasValue(NameContentType, FormUrlencoded)
    /\ Wrote(400)

\* the start line passed the checks that come before the one of the target
TargetChecked ==
    /\ PastStartLine
    /\ StartLineComplete
    /\ ThreeFields
    /\ ReqVersion \in SpecVersions
    /\ ReqMethod \in SpecImplemented
RejectedAtStartLine ==
    /\ io.buf = <<StatusLine(400, "Bad Request"), BlankLine>>
    /\ WriterClosed
    /\ ~HeaderBlockRead
    /\ ~HandlerInvoked

(***************************************************************************)
(* C17.  Request-target validation: a target that reached its check is     *)
(* answered 400 at the start line exactly when it is not origin-form, "/"  *)
(* and a run of word characters and "/", then optionally "?" and a run of  *)
(* word characters, "=" and "&"; "/a&b" and "/a=b" are answered 400.       *)
(***************************************************************************)
C17_TargetValidation ==
    TargetChecked => (RejectedAtStartLine <=> ~SpecIsOriginForm(ReqTarget))

(***************************************************************************)
(* C18.  Route DSL literals: whenever the router resolved a path, some     *)
(* registered route equals that path segment by segment, each "<name>"     *)
(* segment standing for a non-empty segment and every other character for  *)
(* itself, and route_func is the handler of the first such route.          *)
(***************************************************************************)
C18_RouteLiteralsMatchThemselves ==
    (RouterConsulted /\ route_func.found) =>
        LET hits == SpecHits(UrlPath(ReqTarget))
        IN /\ hits # {}
           /\ route_func.func = SpecStrRoutes[Min(hits)].val

\* the positions of event e in the history of the connection
At(e) == {i \in DOMAIN io.log : io.log[i] = e}
Before(e, k) == \E i \in At(e) : i < k

(***************************************************************************)
(* C19.  Strict serialisation.  The handler is called at most once; when   *)
(* it is called, the start line and then the header block have been read,  *)
(* for an unsafe method the body has been read after them and is as long   *)
(* as Content-Length says, the start line passed the checks of version,    *)
(* method and route, no read met EOF, and nothing has been written and the *)
(* writer has not been closed (every failed check writes its error         *)
(* response or leaves the coroutine); and the status line 200 is written   *)
(* only after the handler has returned.                                    *)
(***************************************************************************)
C19_StrictSerialisation ==
    /\ Cardinality(At("handler_call")) <= 1
    /\ \A k \in At("handler_call") :
          /\ \E i \in At("readuntil_crlf") : \E j \in At("readuntil_crlfcrlf") : i < j /\ j < k
          /\ method \notin HTTP_METHOD_SAFE =>
                /\ \E j \in At("readuntil_crlfcrlf") : \E b \in At("readexactly") : j < b /\ b < k
                /\ content_length.bound
                /\ Len(content) = content_length.n
          /\ ~Before("write", k) /\ ~Before("close", k) /\ ~Before("eof", k)
          /\ ThreeFields /\ ReqVersion \in SpecVersions /\ ReqMethod \in SpecImplemented
          /\ route_func.found
    /\ Wrote(200) => \E r \in At("handler_return") : \A w \in At("write") : r < w
    /\ \A r \in At("handler_return") : \E k \in At("handler_call") : k < r

\* an unsafe request whose body was read, dispatched and answered 200
C19_Witness ==
    /\ Finished
    /\ ReqMethod \in SpecUnsafe
    /\ Len(content) > 0
    /\ HandlerInvoked
    /\ Wrote(200)

ReaderWriterUse == {"write", "readuntil_crlf", "readuntil_crlfcrlf", "readexactly"}

(***************************************************************************)
(* C20.  No write after close: in the history of a connection, no write to *)
(* the writer and no read of the reader comes after a writer.close().      *)
(***************************************************************************)
C20_NoWriteAfterClose ==
    \A i \in At("close") : \A j \in DOMAIN io.log : j > i => io.log[j] \notin ReaderWriterUse

\* a 400 written by bad_request, whose close follows the close of
\* response_single_line
C20_Witness == Finished /\ Wrote(400) /\ io.closed = 2

=============================================================================
